---- MODULE Spec2Model ----
(***************************************************************************)
(* Railway Operations Service (src/main.py): a FastAPI proxy that turns    *)
(* REST operations into GraphQL calls through RailwayClient.execute_query. *)
(*                                                                         *)
(* One request is followed from arrival to response.  Every upstream call  *)
(* is one step: the handler issues the call, the upstream answers with an  *)
(* arbitrary reply, and the handler runs on to its next call or to its     *)
(* response.  Python and JSON values are tagged records [j |-> tag, v |->  *)
(* value]; the content of a str is a sequence of pieces of text, single    *)
(* characters wherever the code inspects the content.                      *)
(***************************************************************************)
EXTENDS Naturals, Sequences, FiniteSets

(* ------------------------------ bounds -------------------------------- *)
\* longest variables mapping of a VariableSetRequest
MaxVars == 2
\* longest environment list the upstream returns
MaxEnvs == 2
\* longest deployment list the upstream returns
MaxDeployments == 2

(* ------------------------ Python / JSON values ------------------------ *)
PyNone == [j |-> "null"]
PyStr(s) == [j |-> "str", v |-> s]
PyBool(b) == [j |-> "bool", v |-> b]
PyList(s) == [j |-> "arr", v |-> s]
PyDict(f) == [j |-> "obj", v |-> f]
EmptyDict == PyDict([k \in {} |-> PyNone])

\* bool(x): None, "", [], {} and False are falsy
Truthy(x) ==
  CASE x.j = "null" -> FALSE
    [] x.j = "bool" -> x.v
    [] x.j = "str"  -> Len(x.v) > 0
    [] x.j = "arr"  -> Len(x.v) > 0
    [] x.j = "obj"  -> DOMAIN x.v # {}

\* str.lower(), character by character
LowerOf == [A |-> "a", B |-> "b", C |-> "c", D |-> "d", E |-> "e", F |-> "f",
            G |-> "g", H |-> "h", I |-> "i", J |-> "j", K |-> "k", L |-> "l",
            M |-> "m", N |-> "n", O |-> "o", P |-> "p", Q |-> "q", R |-> "r",
            S |-> "s", T |-> "t", U |-> "u", V |-> "v", W |-> "w", X |-> "x",
            Y |-> "y", Z |-> "z"]
LowerChar(c) == IF c \in DOMAIN LowerOf THEN LowerOf[c] ELSE c
Lower(s) == [i \in DOMAIN s |-> LowerChar(s[i])]

\* the literal "production" of the environment search
production == <<"p", "r", "o", "d", "u", "c", "t", "i", "o", "n">>

(* --------------------- outcomes of an evaluation ---------------------- *)
Return(v) == [t |-> "return", v |-> v]
Raise(e) == [t |-> "raise", e |-> e]
HTTPException(status, detail) ==
  [cls |-> "HTTPException", status_code |-> status, detail |-> detail]
Exc(cls) == [cls |-> cls, status_code |-> 0, detail |-> PyNone]
RailwayApiError == PyStr(<<"Railway API error">>)
\* str(e), kept as the class and status that determine the text
StrOf(e) == <<e.cls, e.status_code>>

\* x[k] for a str key k
Subscript(x, k) ==
  IF x.j = "obj"
    THEN IF k \in DOMAIN x.v THEN Return(x.v[k]) ELSE Raise(Exc("KeyError"))
    ELSE Raise(Exc("TypeError"))
\* o[k] where o is the outcome of the evaluation so far
Sub(o, k) == IF o.t = "raise" THEN o ELSE Subscript(o.v, k)
\* x[0]
First(x) ==
  CASE x.j = "arr" -> IF Len(x.v) > 0 THEN Return(x.v[1])
                                      ELSE Raise(Exc("IndexError"))
    [] x.j = "obj" -> Raise(Exc("KeyError"))
    [] x.j = "str" -> IF Len(x.v) > 0 THEN Return(PyStr(<<x.v[1]>>))
                                      ELSE Raise(Exc("IndexError"))
    [] OTHER -> Raise(Exc("TypeError"))
\* x.get(k), defined on mappings only
Get(x, k) ==
  IF x.j = "obj"
    THEN Return(IF k \in DOMAIN x.v THEN x.v[k] ELSE PyNone)
    ELSE Raise(Exc("AttributeError"))

(* ------------------------- upstream replies --------------------------- *)
\* a network fault or a non-2xx status: requests raises a RequestException
Fault == [kind |-> "fault"]
\* a 2xx response whose body is not JSON; response.json() raises an error
\* that is a RequestException in some versions of requests and a plain
\* ValueError in others
BadJson(isRequestException) ==
  [kind |-> "badjson", isRequestException |-> isRequestException]
\* a 2xx response with a decoded JSON body
Ok(body) == [kind |-> "ok", body |-> body]

GraphQLErrors == PyList(<<PyStr(<<"e">>)>>)

\* the envelopes {data?, errors?} around a data value
Envelopes(data) ==
  { PyDict([data |-> data]),
    PyDict([data |-> data, errors |-> GraphQLErrors]),
    PyDict([data |-> data, errors |-> PyList(<< >>)]) }
\* replies every operation can get, whatever it asked
CommonReplies ==
  { Fault, BadJson(TRUE), BadJson(FALSE),
    Ok(PyList(<< >>)), Ok(EmptyDict), Ok(PyDict([data |-> PyNone])),
    Ok(PyDict([errors |-> GraphQLErrors])),
    Ok(PyDict([errors |-> PyList(<< >>)])), Ok(PyDict([errors |-> PyNone])) }
Replies(datas) ==
  CommonReplies \cup { Ok(b) : b \in UNION { Envelopes(d) : d \in datas } }

(* -------------------- RailwayClient.execute_query --------------------- *)
execute_query_DataFirst(reply) ==
  CASE reply.kind = "fault" -> Raise(HTTPException(500, RailwayApiError))
    [] reply.kind = "badjson" ->
         IF reply.isRequestException
           THEN Raise(HTTPException(500, RailwayApiError))
           ELSE Raise(Exc("ValueError"))
    [] reply.kind = "ok" ->
         LET result == reply.body IN
         IF result.j # "obj" THEN Raise(Exc("TypeError"))
         ELSE IF "data" \in DOMAIN result.v THEN Return(result.v["data"])
         ELSE IF "errors" \in DOMAIN result.v
           THEN Raise(HTTPException(400, result.v["errors"]))
         ELSE Return(EmptyDict)

execute_query(reply) ==
  CASE reply.kind = "fault" -> Raise(HTTPException(500, RailwayApiError))
    [] reply.kind = "badjson" ->
         IF reply.isRequestException
           THEN Raise(HTTPException(500, RailwayApiError))
           ELSE Raise(Exc("ValueError"))
    [] reply.kind = "ok" ->
         LET result == reply.body IN
         \* "errors" in result, then result["errors"] or result.get: every
         \* body that is not a mapping ends in a TypeError or AttributeError
         IF result.j # "obj" THEN Raise(Exc("TypeError"))
         ELSE IF "errors" \in DOMAIN result.v
           THEN Raise(HTTPException(400, result.v["errors"]))
         ELSE IF "data" \in DOMAIN result.v THEN Return(result.v["data"])
         ELSE Return(EmptyDict)

(* ------------------------------ requests ------------------------------ *)
OptStr == { PyNone, PyStr(<< >>), PyStr(<<"x">>) }

ServiceCreateRequests ==
  [ project_id : {PyStr(<<"proj">>)}, repo : {PyStr(<<"owner/repo">>)},
    service_name : OptStr, root_directory : OptStr ]

VARIABLES
  op,          \* the operation being served, "idle" before the request
  pc,          \* the handler's position
  request,     \* the request model
  calls,       \* the upstream calls issued so far, in order
  lastReply,   \* the upstream's reply to the latest call
  lastOutcome, \* what execute_query made of lastReply
  locals,      \* the handler's local variables
  response     \* the HTTP response, once the handler has finished

vars == <<op, pc, request, calls, lastReply, lastOutcome, locals, response>>

NoReply == [kind |-> "none"]
NoOutcome == [t |-> "none"]
NoResponse == [kind |-> "none"]
NoLocals == [none |-> TRUE]
\* a handler that returns: 200 with the body
Respond(body) == [kind |-> "ok", status_code |-> 200, body |-> body]
\* a handler that raises: FastAPI renders an HTTPException with its status
\* code and any other exception as 500 Internal Server Error
Propagate(e) ==
  [kind |-> "error",
   status_code |-> IF e.cls = "HTTPException" THEN e.status_code ELSE 500,
   body |-> e.detail]

Init ==
  /\ op = "idle"
  /\ pc = "idle"
  /\ request = [none |-> TRUE]
  /\ calls = << >>
  /\ lastReply = NoReply
  /\ lastOutcome = NoOutcome
  /\ locals = NoLocals
  /\ response = NoResponse

(* --------------------------- create_service --------------------------- *)
\* lines 138-150: the serviceCreate input
service_input_AlwaysName(req) ==
  LET base == [projectId |-> req.project_id, source |-> [repo |-> req.repo],
               name |-> req.service_name]
  IN IF Truthy(req.root_directory)
       THEN [k \in DOMAIN base \cup {"rootDirectory"} |->
               IF k = "rootDirectory" THEN req.root_directory ELSE base[k]]
       ELSE base

service_input(req) ==
  LET base == [projectId |-> req.project_id, source |-> [repo |-> req.repo]]
      withName ==
        IF Truthy(req.service_name)
          THEN [k \in DOMAIN base \cup {"name"} |->
                  IF k = "name" THEN req.service_name ELSE base[k]]
          ELSE base
  IN IF Truthy(req.root_directory)
       THEN [k \in DOMAIN withName \cup {"rootDirectory"} |->
               IF k = "rootDirectory" THEN req.root_directory ELSE withName[k]]
       ELSE withName

\* the data of a serviceCreate answer
ServiceData(fields) ==
  PyDict([k \in fields |->
            CASE k = "id" -> PyStr(<<"svc">>)
              [] k = "name" -> PyStr(<<"web">>)
              [] k = "createdAt" -> PyStr(<<"t0">>)])
CreateDatas ==
  { PyDict([serviceCreate |-> ServiceData(f)]) :
      f \in { {"id", "name", "createdAt"}, {"id", "createdAt"},
              {"name", "createdAt"}, {"id", "name"} } }
  \cup { PyDict([serviceCreate |-> PyNone]),
         PyDict([serviceCreate |-> PyDict([id |-> PyNone,
                                           createdAt |-> PyStr(<<"t0">>)])]) }

\* pydantic: a str field takes a str and nothing else
ValidStr(x) == x.j = "str"

\* lines 153-163: the body of the try block, given what the call made
create_service_try(called) ==
  LET service_data == Sub(called, "serviceCreate")
      id == Sub(service_data, "id")
      name == IF id.t = "raise" THEN id
              ELSE LET got == Get(service_data.v, "name") IN
                   IF got.t = "return" /\ "name" \notin DOMAIN service_data.v.v
                     THEN Return(PyStr(<<"unnamed">>))
                     ELSE got
      created_at == IF name.t = "raise" THEN name
                    ELSE Sub(service_data, "createdAt")
  IN IF created_at.t = "raise" THEN created_at
     ELSE IF ValidStr(id.v) /\ ValidStr(name.v) /\ ValidStr(created_at.v)
       THEN Return([id |-> id.v, name |-> name.v, created_at |-> created_at.v,
                    status |-> "created"])
       ELSE Raise(Exc("ValidationError"))

\* lines 165-167: except Exception, which every exception here matches
create_service_except_Reraise(e) ==
  IF e.cls = "HTTPException" THEN e
  ELSE HTTPException(500, [msg |-> "Service creation failed", cause |-> StrOf(e)])

create_service_except(e) ==
  HTTPException(500, [msg |-> "Service creation failed", cause |-> StrOf(e)])

create_service(req, reply) ==
  /\ op = "idle"
  /\ op' = "create_service"
  /\ request' = req
  /\ calls' = Append(calls, [op |-> "serviceCreate",
                             variables |-> [input |-> service_input(req)]])
  /\ lastReply' = reply
  /\ lastOutcome' = execute_query(reply)
  /\ LET done == create_service_try(execute_query(reply)) IN
     response' = IF done.t = "return" THEN Respond(done.v)
                 ELSE Propagate(create_service_except(done.e))
  /\ pc' = "done"
  /\ UNCHANGED locals

(* ------------------------- get_service_status ------------------------- *)
StatusDatas ==
  { PyDict([service |-> ServiceData(f)]) :
      f \in { {"id", "name", "createdAt"}, {"id", "createdAt"} } }
  \cup { PyDict([service |-> PyNone]) }

ServiceIds == { PyStr(<<"svc">>) }

\* lines 349-357: the body of the try block
get_service_status_try(called) ==
  LET service == Sub(called, "service")
      id == Sub(service, "id")
      name == IF id.t = "raise" THEN id ELSE Sub(service, "name")
      created_at == IF name.t = "raise" THEN name
                    ELSE Sub(service, "createdAt")
  IN IF created_at.t = "raise" THEN created_at
     ELSE Return([service_id |-> id.v, name |-> name.v,
                  created_at |-> created_at.v, status |-> "active"])

\* lines 359-361
get_service_status_except(e) ==
  HTTPException(500, [msg |-> "Status query failed", cause |-> StrOf(e)])

get_service_status(service_id, reply) ==
  /\ op = "idle"
  /\ op' = "get_service_status"
  /\ request' = [service_id |-> service_id]
  /\ calls' = Append(calls, [op |-> "service",
                             variables |-> [id |-> service_id]])
  /\ lastReply' = reply
  /\ lastOutcome' = execute_query(reply)
  /\ LET done == get_service_status_try(execute_query(reply)) IN
     response' = IF done.t = "return" THEN Respond(done.v)
                 ELSE Propagate(get_service_status_except(done.e))
  /\ pc' = "done"
  /\ UNCHANGED locals

(* ---------------------------- set_variables --------------------------- *)
VarNames == { PyStr(<<"A">>), PyStr(<<"B">>), PyStr(<<"C">>) }
\* Dict[str, str] in insertion order: the keys are unique
VariableMaps ==
  { m \in UNION { [1..n -> [key : VarNames, value : {PyStr(<<"v">>)}]] :
                    n \in 0..MaxVars } :
      \A a, b \in DOMAIN m : m[a].key = m[b].key => a = b }
VariableSetRequests ==
  [ project_id : {PyStr(<<"proj">>)}, service_id : {PyStr(<<"svc">>)},
    environment_id : OptStr, variables : VariableMaps ]

EnvNode(id, name) == PyDict([node |-> PyDict([id |-> id, name |-> name])])
EnvNodes ==
  { EnvNode(PyStr(<<"a">>), PyStr(<<"s", "t", "a", "g", "i", "n", "g">>)),
    EnvNode(PyStr(<<"b">>),
            PyStr(<<"P", "r", "o", "d", "u", "c", "t", "i", "o", "n">>)),
    EnvNode(PyStr(<<"c">>), PyStr(production)),
    EnvNode(PyStr(<< >>),
            PyStr(<<"P", "R", "O", "D", "U", "C", "T", "I", "O", "N">>)),
    PyDict([node |-> PyDict([id |-> PyStr(<<"d">>)])]) }
EnvLists == UNION { [1..n -> EnvNodes] : n \in 0..MaxEnvs }
Project(edges) ==
  PyDict([project |-> PyDict([environments |-> PyDict([edges |-> edges])])])
LookupDatas ==
  { Project(PyList(l)) : l \in EnvLists }
  \cup { Project(PyNone), PyDict([project |-> PyNone]) }

UpsertDatas ==
  { PyDict([variableUpsert |-> x]) :
      x \in { PyBool(TRUE), PyBool(FALSE), PyNone, PyStr(<<"true">>) } }

\* for env in environments: the items the loop visits
Iterate(x) ==
  CASE x.j = "arr" -> Return(x.v)
    [] x.j = "str" -> Return([i \in DOMAIN x.v |-> PyStr(<<x.v[i]>>)])
    [] x.j = "obj" /\ DOMAIN x.v = {} -> Return(<< >>)
    [] OTHER -> Raise(Exc("TypeError"))

\* lines 206-209: the search for the production environment from item i on
RECURSIVE find_production_CaseSensitive(_, _, _)
find_production_CaseSensitive(environment_id, items, i) ==
  IF i > Len(items) THEN Return(environment_id)
  ELSE LET name == Sub(Sub(Return(items[i]), "node"), "name") IN
       IF name.t = "raise" THEN name
       ELSE IF name.v.j # "str" THEN Raise(Exc("AttributeError"))
       ELSE IF name.v.v = production
         THEN Sub(Sub(Return(items[i]), "node"), "id")
       ELSE find_production_CaseSensitive(environment_id, items, i + 1)

RECURSIVE find_production(_, _, _)
find_production(environment_id, items, i) ==
  IF i > Len(items) THEN Return(environment_id)
  ELSE LET name == Sub(Sub(Return(items[i]), "node"), "name") IN
       IF name.t = "raise" THEN name
       ELSE IF name.v.j # "str" THEN Raise(Exc("AttributeError"))
       ELSE IF Lower(name.v.v) = production
         THEN Sub(Sub(Return(items[i]), "node"), "id")
       ELSE find_production(environment_id, items, i + 1)

\* lines 202-213: the body of the try block, given what the call made
resolve_environment(environment_id, called) ==
  LET environments == Sub(Sub(Sub(called, "project"), "environments"), "edges")
      items == IF environments.t = "raise" THEN environments
               ELSE Iterate(environments.v)
      found == IF items.t = "raise" THEN items
               ELSE find_production(environment_id, items.v, 1)
  IN IF found.t = "raise" THEN found
     ELSE IF ~Truthy(found.v) /\ Truthy(environments.v)
       THEN Sub(Sub(First(environments.v), "node"), "id")
     ELSE found

\* lines 256-260
VariableResponse_final_AnySet(success_vars, error_vars) ==
  [success |-> Len(success_vars) > 0, variables_set |-> success_vars,
   errors |-> error_vars]

VariableResponse_final(success_vars, error_vars) ==
  [success |-> Len(error_vars) = 0, variables_set |-> success_vars,
   errors |-> error_vars]

\* lines 215-221: what the handler does with a failed lookup
lookup_except_Continue(l, e) == [go |-> "loop", locals |-> l]

lookup_except_Reraise(l, e) ==
  IF e.cls = "HTTPException" THEN [go |-> "raise", e |-> e]
  ELSE [go |-> "return",
        body |-> [success |-> FALSE, variables_set |-> << >>,
                  errors |-> << [msg |-> "Failed to get environment ID",
                                 cause |-> StrOf(e)] >>]]

lookup_except(l, e) ==
  [go |-> "return",
   body |-> [success |-> FALSE, variables_set |-> << >>,
             errors |-> << [msg |-> "Failed to get environment ID",
                            cause |-> StrOf(e)] >>]]

\* lines 251-254: what the loop does with an upsert that raised
upsert_except_Reraise(l, key, e) == [go |-> "raise", e |-> e]

upsert_except(l, key, e) ==
  [go |-> "loop",
   locals |-> [l EXCEPT !.error_vars =
                 Append(@, [msg |-> "Failed to set", key |-> key,
                            cause |-> StrOf(e)])]]

\* lines 242-249: the body of the try block of one iteration
upsert_try(l, key, called) ==
  LET got == IF called.t = "raise" THEN called
             ELSE Get(called.v, "variableUpsert")
  IN IF got.t = "raise" THEN got
     ELSE IF got.v.j = "bool" /\ got.v.v
       THEN Return([l EXCEPT !.success_vars = Append(@, key)])
     ELSE Return([l EXCEPT !.error_vars =
                    Append(@, [msg |-> "Failed to set", key |-> key,
                               cause |-> "Unexpected response"])])

\* lines 176-183
set_variables_start(req) ==
  /\ op = "idle"
  /\ op' = "set_variables"
  /\ request' = req
  /\ locals' = [environment_id |-> req.environment_id,
                success_vars |-> << >>, error_vars |-> << >>, i |-> 1]
  /\ pc' = IF ~Truthy(req.environment_id) THEN "lookup" ELSE "loop"
  /\ UNCHANGED <<calls, lastReply, lastOutcome, response>>

\* lines 184-221
set_variables_lookup(reply) ==
  /\ op = "set_variables" /\ pc = "lookup"
  /\ calls' = Append(calls, [op |-> "project",
                             variables |-> [id |-> request.project_id]])
  /\ lastReply' = reply
  /\ lastOutcome' = execute_query(reply)
  /\ LET resolved == resolve_environment(locals.environment_id,
                                         execute_query(reply))
         after == IF resolved.t = "return"
                    THEN [go |-> "loop",
                          locals |-> [locals EXCEPT !.environment_id =
                                                      resolved.v]]
                    ELSE lookup_except(locals, resolved.e)
     IN CASE after.go = "loop" ->
               /\ locals' = after.locals
               /\ pc' = "loop"
               /\ UNCHANGED response
          [] after.go = "return" ->
               /\ response' = Respond(after.body)
               /\ pc' = "done"
               /\ UNCHANGED locals
          [] after.go = "raise" ->
               /\ response' = Propagate(after.e)
               /\ pc' = "done"
               /\ UNCHANGED locals
  /\ UNCHANGED <<op, request>>

\* lines 224-254: one iteration of the loop
set_variables_upsert(reply) ==
  /\ op = "set_variables" /\ pc = "loop"
  /\ locals.i <= Len(request.variables)
  /\ LET key == request.variables[locals.i].key
         value == request.variables[locals.i].value
         tried == upsert_try(locals, key, execute_query(reply))
         after == IF tried.t = "return"
                    THEN [go |-> "loop", locals |-> tried.v]
                    ELSE upsert_except(locals, key, tried.e)
     IN /\ calls' = Append(calls,
                      [op |-> "variableUpsert",
                       variables |-> [input |->
                         [projectId |-> request.project_id,
                          environmentId |-> locals.environment_id,
                          serviceId |-> request.service_id,
                          name |-> key, value |-> value]]])
        /\ CASE after.go = "loop" ->
                  /\ locals' = [after.locals EXCEPT !.i = @ + 1]
                  /\ UNCHANGED <<pc, response>>
             [] after.go = "raise" ->
                  /\ response' = Propagate(after.e)
                  /\ pc' = "done"
                  /\ UNCHANGED locals
  /\ lastReply' = reply
  /\ lastOutcome' = execute_query(reply)
  /\ UNCHANGED <<op, request>>

\* lines 256-260
set_variables_return ==
  /\ op = "set_variables" /\ pc = "loop"
  /\ locals.i > Len(request.variables)
  /\ response' = Respond(VariableResponse_final(locals.success_vars,
                                                locals.error_vars))
  /\ pc' = "done"
  /\ UNCHANGED <<op, request, calls, lastReply, lastOutcome, locals>>

(* -------------------------- trigger_deployment ------------------------ *)
DeploymentTriggerRequests ==
  [ project_id : {PyStr(<<"proj">>)}, service_id : {PyStr(<<"svc">>)},
    environment_id : OptStr ]

DeploymentNodes ==
  { PyDict([node |-> PyDict([id |-> PyStr(<<"d1">>)])]),
    PyDict([node |-> PyDict([id |-> PyStr(<<"d2">>)])]),
    PyDict([node |-> PyDict([status |-> PyStr(<<"SUCCESS">>)])]) }
DeploymentLists == UNION { [1..n -> DeploymentNodes] : n \in 0..MaxDeployments }
DeploymentDatas ==
  { PyDict([deployments |-> PyDict([edges |-> PyList(l)])]) :
      l \in DeploymentLists }
  \cup { PyDict([deployments |-> PyDict([edges |-> PyNone])]),
         PyDict([deployments |-> PyNone]) }
RestartDatas ==
  { PyDict([deploymentRestart |-> PyBool(TRUE)]),
    PyDict([deploymentRestart |-> PyBool(FALSE)]) }

\* x[-1]
Last(x) ==
  IF x.j = "arr" /\ Len(x.v) > 0 THEN Return(x.v[Len(x.v)])
                                 ELSE First(x)

\* line 305
latest_deployment_id_Last(deployments) ==
  Sub(Sub(Last(deployments), "node"), "id")

latest_deployment_id(deployments) ==
  Sub(Sub(First(deployments), "node"), "id")

\* lines 299-305: the try block up to the restart call
trigger_list_try(called) ==
  LET deployments == Sub(Sub(called, "deployments"), "edges") IN
  IF deployments.t = "raise" THEN deployments
  ELSE IF ~Truthy(deployments.v)
    THEN Raise(HTTPException(404,
                 PyStr(<<"No deployments found for this service">>)))
  ELSE latest_deployment_id(deployments.v)

\* lines 315-323: the try block from the restart call on
trigger_restart_try(latest_deployment_id_, called) ==
  LET restarted == Sub(called, "deploymentRestart") IN
  IF restarted.t = "raise" THEN restarted
  ELSE Return([success |-> TRUE, deployment_id |-> latest_deployment_id_,
               restarted |-> restarted.v])

\* lines 325-327: except Exception, which an HTTPException matches too
trigger_deployment_except(e) ==
  HTTPException(500, [msg |-> "Deployment trigger failed", cause |-> StrOf(e)])

\* lines 269-305
trigger_deployment_list(req, reply) ==
  /\ op = "idle"
  /\ op' = "trigger_deployment"
  /\ request' = req
  /\ calls' = Append(calls,
                [op |-> "deployments",
                 variables |-> [first |-> 1,
                                input |-> [projectId |-> req.project_id,
                                           serviceId |-> req.service_id,
                                           environmentId |-> req.environment_id]]])
  /\ lastReply' = reply
  /\ lastOutcome' = execute_query(reply)
  /\ LET listed == trigger_list_try(execute_query(reply)) IN
     IF listed.t = "return"
       THEN /\ locals' = [latest_deployment_id |-> listed.v]
            /\ pc' = "restart"
            /\ UNCHANGED response
       ELSE /\ response' = Propagate(trigger_deployment_except(listed.e))
            /\ pc' = "done"
            /\ UNCHANGED locals

\* lines 307-327
trigger_deployment_restart(reply) ==
  /\ op = "trigger_deployment" /\ pc = "restart"
  /\ calls' = Append(calls,
                [op |-> "deploymentRestart",
                 variables |-> [deploymentId |-> locals.latest_deployment_id]])
  /\ lastReply' = reply
  /\ lastOutcome' = execute_query(reply)
  /\ LET done == trigger_restart_try(locals.latest_deployment_id,
                                     execute_query(reply)) IN
     response' = IF done.t = "return" THEN Respond(done.v)
                 ELSE Propagate(trigger_deployment_except(done.e))
  /\ pc' = "done"
  /\ UNCHANGED <<op, request, locals>>

Next ==
  \/ \E req \in ServiceCreateRequests, reply \in Replies(CreateDatas) :
       create_service(req, reply)
  \/ \E id \in ServiceIds, reply \in Replies(StatusDatas) :
       get_service_status(id, reply)
  \/ \E req \in VariableSetRequests : set_variables_start(req)
  \/ \E reply \in Replies(LookupDatas) : set_variables_lookup(reply)
  \/ \E reply \in Replies(UpsertDatas) : set_variables_upsert(reply)
  \/ set_variables_return
  \/ \E req \in DeploymentTriggerRequests, reply \in Replies(DeploymentDatas) :
       trigger_deployment_list(req, reply)
  \/ \E reply \in Replies(RestartDatas) : trigger_deployment_restart(reply)

Spec == Init /\ [][Next]_vars

(* ===================== what the upstream answered ===================== *)
\* These read the raw reply, not what execute_query made of it.
IsObject(reply) == reply.kind = "ok" /\ reply.body.j = "obj"
HasErrorsKey(reply) == IsObject(reply) /\ "errors" \in DOMAIN reply.body.v
NonEmptyErrors(reply) ==
  /\ HasErrorsKey(reply)
  /\ reply.body.v.errors.j = "arr"
  /\ Len(reply.body.v.errors.v) > 0
\* the reply is a data object that has the path of keys, all of them objects
RECURSIVE HasPath(_, _)
HasPath(x, path) ==
  \/ path = << >>
  \/ /\ x.j = "obj"
     /\ Head(path) \in DOMAIN x.v
     /\ HasPath(x.v[Head(path)], Tail(path))
RECURSIVE AtPath(_, _)
AtPath(x, path) ==
  IF path = << >> THEN x ELSE AtPath(x.v[Head(path)], Tail(path))
\* a reply without an errors key whose data has the path
Answers(reply, path) ==
  /\ IsObject(reply)
  /\ ~HasErrorsKey(reply)
  /\ HasPath(reply.body, <<"data">> \o path)
Answer(reply, path) == AtPath(reply.body, <<"data">> \o path)

NonEmptyStr(x) == x.j = "str" /\ Len(x.v) > 0
UpsertCalls == SelectSeq(calls, LAMBDA c : c.op = "variableUpsert")
NumVars == Len(request.variables)

(* ------------------------------- C1 ----------------------------------- *)
ListedEmpty(reply) ==
  /\ Answers(reply, <<"deployments", "edges">>)
  /\ Answer(reply, <<"deployments", "edges">>).j = "arr"
  /\ Len(Answer(reply, <<"deployments", "edges">>).v) = 0

\* C1: when the deployment-list call of trigger_deployment succeeds with an
\* empty list the operation fails with 404, and every other failure of
\* trigger_deployment is a 500.
C1_EmptyListIs404 ==
  (op = "trigger_deployment" /\ pc = "done") =>
    /\ (Len(calls) = 1 /\ ListedEmpty(lastReply)) =>
         (response.kind = "error" /\ response.status_code = 404)
    /\ (response.kind = "error" /\ ~(Len(calls) = 1 /\ ListedEmpty(lastReply))) =>
         response.status_code = 500

(* ------------------------------- C2 ----------------------------------- *)
\* the response of a failed environment lookup
ResolutionFailed ==
  /\ response.kind = "ok"
  /\ Len(response.body.errors) = 1
  /\ response.body.errors[1].msg = "Failed to get environment ID"

\* a transport error, a GraphQL error, or a result that is not literally true
UpsertFails(reply) ==
  \/ reply.kind = "fault"
  \/ NonEmptyErrors(reply)
  \/ /\ Answers(reply, << >>)
     /\ Answer(reply, << >>).j = "obj"
     /\ ~ /\ "variableUpsert" \in DOMAIN Answer(reply, << >>).v
          /\ Answer(reply, << >>).v.variableUpsert.j = "bool"
          /\ Answer(reply, << >>).v.variableUpsert.v

C2_Attempted ==
  (op = "set_variables" /\ pc \in {"loop", "done"}) =>
    /\ Len(UpsertCalls) = locals.i - 1
    /\ \A k \in 1..Len(UpsertCalls) :
         UpsertCalls[k].variables.input.name = request.variables[k].key
    /\ (pc = "done" /\ ~ResolutionFailed) => Len(UpsertCalls) = NumVars

C2_Iteration ==
  (op = "set_variables" /\ pc = "loop" /\ locals.i <= NumVars) =>
    /\ pc' = "loop"
    /\ locals'.i = locals.i + 1
    /\ Len(calls') = Len(calls) + 1
    /\ SubSeq(calls', 1, Len(calls)) = calls
    /\ calls'[Len(calls')].op = "variableUpsert"
    /\ calls'[Len(calls')].variables.input.name = request.variables[locals.i].key
    /\ UpsertFails(lastReply') =>
         /\ locals'.success_vars = locals.success_vars
         /\ Len(locals'.error_vars) = Len(locals.error_vars) + 1
         /\ SubSeq(locals'.error_vars, 1, Len(locals.error_vars)) = locals.error_vars
         /\ locals'.error_vars[Len(locals'.error_vars)].key =
              request.variables[locals.i].key

\* C2: with the environment id supplied or resolved, set_variables issues one
\* variableUpsert per variable in insertion order whatever the earlier
\* outcomes; a failed upsert adds one error entry naming its variable and the
\* loop goes on.
C2_OneUpsertPerVariable == []C2_Attempted /\ [][C2_Iteration]_vars

\* a first upsert failed and a later one was still made and accepted
C2_Witness ==
  /\ op = "set_variables" /\ pc = "done" /\ NumVars >= 2
  /\ Len(UpsertCalls) = NumVars
  /\ Len(locals.error_vars) >= 1
  /\ locals.error_vars[1].key = request.variables[1].key
  /\ Len(locals.success_vars) >= 1

(* ------------------------------- C3 ----------------------------------- *)
\* the upsert returned true
UpsertAccepted(reply) ==
  /\ Answers(reply, <<"variableUpsert">>)
  /\ Answer(reply, <<"variableUpsert">>).j = "bool"
  /\ Answer(reply, <<"variableUpsert">>).v

C3_Response ==
  (op = "set_variables" /\ pc = "done" /\ response.kind = "ok") =>
    /\ response.body.success <=> (Len(response.body.errors) = 0)
    /\ ~ResolutionFailed =>
         /\ response.body.variables_set = locals.success_vars
         /\ Len(response.body.errors) = Len(locals.error_vars)
         /\ Len(response.body.variables_set) + Len(response.body.errors)
              = NumVars

C3_Accumulation ==
  (op = "set_variables" /\ pc = "loop" /\ pc' = "loop") =>
    IF UpsertAccepted(lastReply')
      THEN /\ locals'.success_vars =
                Append(locals.success_vars, request.variables[locals.i].key)
           /\ locals'.error_vars = locals.error_vars
      ELSE /\ locals'.success_vars = locals.success_vars
           /\ Len(locals'.error_vars) = Len(locals.error_vars) + 1

\* C3: success is true iff errors is empty; without a resolution failure,
\* variables_set is the names whose upsert returned true in processing
\* order, errors has one entry per other variable, and the two lengths add
\* up to the number of input variables.
C3_SuccessIffNoErrors == []C3_Response /\ [][C3_Accumulation]_vars

\* a partial success: one name set, one error
C3_Witness ==
  /\ op = "set_variables" /\ pc = "done" /\ response.kind = "ok"
  /\ NumVars = 2
  /\ Len(response.body.variables_set) = 1
  /\ Len(response.body.errors) = 1
  /\ ~response.body.success

(* ------------------------------- C4 ----------------------------------- *)
\* a transport or GraphQL error
CallErrored(reply) == reply.kind = "fault" \/ NonEmptyErrors(reply)

C4_Aborted ==
  (/\ op = "set_variables" /\ Len(calls) = 1 /\ calls[1].op = "project"
   /\ CallErrored(lastReply)) =>
    /\ pc = "done"
    /\ response.kind = "ok"
    /\ response.body.success = FALSE
    /\ response.body.variables_set = << >>
    /\ Len(response.body.errors) = 1

C4_Finished == (pc = "done") => (pc' = "done" /\ calls' = calls)

\* C4: a failed environment lookup ends set_variables at once with
\* success=false, no variable set and one error, and no variableUpsert call
\* is issued then or later.
C4_LookupFailureAborts == []C4_Aborted /\ [][C4_Finished]_vars

\* a transport fault on the lookup of a request that has variables to set
C4_Witness ==
  /\ op = "set_variables" /\ pc = "done" /\ NumVars >= 1
  /\ Len(calls) = 1 /\ calls[1].op = "project"
  /\ lastReply.kind = "fault"
  /\ response.kind = "ok" /\ Len(response.body.errors) = 1

(* ------------------------------- C5 ----------------------------------- *)
\* the list call succeeded with a list whose first entry has an id
ListedFirst(reply) ==
  /\ Answers(reply, <<"deployments", "edges">>)
  /\ Answer(reply, <<"deployments", "edges">>).j = "arr"
  /\ Len(Answer(reply, <<"deployments", "edges">>).v) > 0
  /\ HasPath(Answer(reply, <<"deployments", "edges">>).v[1], <<"node", "id">>)
FirstListedId(reply) ==
  AtPath(Answer(reply, <<"deployments", "edges">>).v[1], <<"node", "id">>)

C5_Calls ==
  (op = "trigger_deployment") =>
    /\ Len(calls) \in {1, 2}
    /\ calls[1].op = "deployments"
    /\ (pc = "restart") =>
         /\ Len(calls) = 1
         /\ ListedFirst(lastReply)
         /\ locals.latest_deployment_id = FirstListedId(lastReply)
    /\ (Len(calls) = 2) =>
         /\ pc = "done"
         /\ calls[2].op = "deploymentRestart"
         /\ calls[2].variables.deploymentId = locals.latest_deployment_id

C5_RestartAfterList ==
  (op = "trigger_deployment" /\ calls' # calls) =>
    (pc = "restart" /\ locals' = locals)

\* C5: trigger_deployment calls list-deployments and then, at most once and
\* only after a non-empty list, deploymentRestart with the id of the first
\* listed deployment; it makes no other call.
C5_ListThenRestart == []C5_Calls /\ [][C5_RestartAfterList]_vars

\* two deployments listed, the first one restarted
C5_Witness ==
  /\ op = "trigger_deployment" /\ pc = "restart"
  /\ ListedFirst(lastReply)
  /\ Len(Answer(lastReply, <<"deployments", "edges">>).v) = 2
  /\ HasPath(Answer(lastReply, <<"deployments", "edges">>).v[2], <<"node", "id">>)
  /\ AtPath(Answer(lastReply, <<"deployments", "edges">>).v[2], <<"node", "id">>)
       # FirstListedId(lastReply)
  /\ locals.latest_deployment_id = FirstListedId(lastReply)

(* ------------------------------- C6 ----------------------------------- *)
IsGraphQLError(outcome, errors) ==
  /\ outcome.t = "raise"
  /\ outcome.e.cls = "HTTPException"
  /\ outcome.e.status_code = 400
  /\ outcome.e.detail = errors
IsData(outcome, body) ==
  /\ outcome.t = "return"
  /\ outcome.v = IF "data" \in DOMAIN body.v THEN body.v.data ELSE EmptyDict
IsTransportError(outcome) ==
  /\ outcome.t = "raise"
  /\ outcome.e.cls = "HTTPException"
  /\ outcome.e.status_code = 500

\* C6 as stated: on a 2xx response execute_query fails with the GraphQL
\* error exactly when the body has a non-empty errors sequence, and returns
\* the data field (or an empty mapping) in every other 2xx case; a non-2xx
\* response or network fault is a 500.
C6_NonEmptyErrorsOnly ==
  /\ IsObject(lastReply) =>
       IF NonEmptyErrors(lastReply)
         THEN IsGraphQLError(lastOutcome, lastReply.body.v.errors)
         ELSE IsData(lastOutcome, lastReply.body)
  /\ lastReply.kind = "fault" => IsTransportError(lastOutcome)

\* C6 amended: on a 2xx response whose body is a JSON object execute_query
\* fails with the GraphQL error (400 carrying the value of errors) exactly
\* when the body has the key errors, whatever its value and also when data
\* is present; otherwise it returns the data field, or an empty mapping when
\* data is absent.  A non-2xx response or network fault is a 500.
C6_ErrorsKeyPresent ==
  /\ IsObject(lastReply) =>
       IF HasErrorsKey(lastReply)
         THEN IsGraphQLError(lastOutcome, lastReply.body.v.errors)
         ELSE IsData(lastOutcome, lastReply.body)
  /\ lastReply.kind = "fault" => IsTransportError(lastOutcome)

\* a body with both data and errors, answered with the GraphQL error
C6_Witness ==
  /\ HasErrorsKey(lastReply)
  /\ "data" \in DOMAIN lastReply.body.v
  /\ lastReply.body.v.data.j = "obj"
  /\ IsGraphQLError(lastOutcome, lastReply.body.v.errors)

(* ------------------------------- C7 ----------------------------------- *)
\* the lookup succeeded with a list of {id, name} nodes
ListedEnvironments(reply) ==
  /\ Answers(reply, <<"project", "environments", "edges">>)
  /\ Answer(reply, <<"project", "environments", "edges">>).j = "arr"
  /\ \A n \in DOMAIN Answer(reply, <<"project", "environments", "edges">>).v :
       LET env == Answer(reply, <<"project", "environments", "edges">>).v[n]
       IN /\ HasPath(env, <<"node", "id">>)
          /\ HasPath(env, <<"node", "name">>)
          /\ AtPath(env, <<"node", "name">>).j = "str"
Environments(reply) == Answer(reply, <<"project", "environments", "edges">>).v
EnvId(env) == AtPath(env, <<"node", "id">>)
EnvName(env) == AtPath(env, <<"node", "name">>).v
\* the positions of the environments named production, ignoring case
Productions(envs) == { n \in DOMAIN envs : Lower(EnvName(envs[n])) = production }
FirstProduction(envs) ==
  CHOOSE n \in Productions(envs) : \A m \in Productions(envs) : n <= m
\* the lookup has just answered
LookedUp ==
  /\ op = "set_variables" /\ pc = "loop"
  /\ Len(calls) = 1 /\ calls[1].op = "project"
  /\ ListedEnvironments(lastReply)
UsedInEveryUpsert ==
  \A k \in DOMAIN UpsertCalls :
    UpsertCalls[k].variables.input.environmentId = locals.environment_id
NoLookup == \A k \in DOMAIN calls : calls[k].op # "project"

\* C7 as stated: without an environment id the id used is that of the first
\* environment named production ignoring case, else that of the first
\* environment, else null; a supplied id is used without any lookup.
C7_ProductionFirstElseNull ==
  (op = "set_variables") =>
    /\ UsedInEveryUpsert
    /\ (request.environment_id.j # "null") =>
         (NoLookup /\ locals.environment_id = request.environment_id)
    /\ (request.environment_id.j = "null" /\ LookedUp) =>
         LET envs == Environments(lastReply) IN
         locals.environment_id =
           IF Productions(envs) # {} THEN EnvId(envs[FirstProduction(envs)])
           ELSE IF Len(envs) > 0 THEN EnvId(envs[1])
           ELSE PyNone

\* C7 amended: a non-empty environment id is used without any lookup.  With
\* a null or empty id the environments are looked up and the id used in
\* every upsert is that of the first environment named production ignoring
\* case when that id is non-empty; otherwise that of the first listed
\* environment; otherwise, the list being empty, the id as it came in the
\* request (null or empty), with which the upserts are still attempted.
C7_EnvironmentUsed ==
  (op = "set_variables") =>
    /\ UsedInEveryUpsert
    /\ NonEmptyStr(request.environment_id) =>
         (NoLookup /\ pc # "lookup"
          /\ locals.environment_id = request.environment_id)
    /\ (~NonEmptyStr(request.environment_id) /\ pc # "lookup") =>
         (Len(calls) >= 1 /\ calls[1].op = "project")
    /\ LookedUp =>
         LET envs == Environments(lastReply) IN
         locals.environment_id =
           IF /\ Productions(envs) # {}
              /\ NonEmptyStr(EnvId(envs[FirstProduction(envs)]))
             THEN EnvId(envs[FirstProduction(envs)])
           ELSE IF Len(envs) > 0 THEN EnvId(envs[1])
           ELSE request.environment_id

\* staging listed before Production: the id of Production is resolved
C7_Witness ==
  /\ LookedUp
  /\ Len(Environments(lastReply)) = 2
  /\ Productions(Environments(lastReply)) = {2}
  /\ EnvName(Environments(lastReply)[2]) # production
  /\ NonEmptyStr(EnvId(Environments(lastReply)[2]))
  /\ locals.environment_id = EnvId(Environments(lastReply)[2])
  /\ locals.environment_id # EnvId(Environments(lastReply)[1])

(* ------------------------------- C8 ----------------------------------- *)
\* C8: whatever the upstream does, set_variables ends with a
\* VariableResponse and not with an HTTP error, and a call that raised
\* leaves an entry in errors.
C8_NeverRaises ==
  (op = "set_variables" /\ pc = "done") =>
    /\ response.kind = "ok"
    /\ response.status_code = 200
    /\ DOMAIN response.body = {"success", "variables_set", "errors"}
    /\ response.body.success \in BOOLEAN
    /\ (Len(calls) >= 1 /\ lastOutcome.t = "raise") =>
         (Len(response.body.errors) >= 1 /\ ~response.body.success)

\* the lookup raised the adapter's 400 and the handler answered inline
C8_Witness ==
  /\ op = "set_variables" /\ pc = "done"
  /\ Len(calls) = 1 /\ calls[1].op = "project"
  /\ NonEmptyErrors(lastReply)
  /\ lastOutcome.t = "raise" /\ lastOutcome.e.status_code = 400
  /\ response.kind = "ok" /\ ~response.body.success

(* ------------------------------- C9 ----------------------------------- *)
\* the expected field of the data is missing
FieldMissing(reply, field) ==
  /\ Answers(reply, << >>)
  /\ ~Answers(reply, <<field>>)

\* C9: create_service and get_service_status answer every upstream failure
\* (transport fault, GraphQL errors, missing fields) with 500 and with no
\* other error status.
C9_AlwaysInternalError ==
  (op \in {"create_service", "get_service_status"} /\ pc = "done") =>
    /\ response.kind = "error" => response.status_code = 500
    /\ ( \/ lastReply.kind = "fault"
         \/ HasErrorsKey(lastReply)
         \/ FieldMissing(lastReply, IF op = "create_service"
                                      THEN "serviceCreate" ELSE "service") ) =>
         (response.kind = "error" /\ response.status_code = 500)

\* the adapter raised 400 for a GraphQL error and create_service answered 500
C9_Witness ==
  /\ op = "create_service" /\ pc = "done"
  /\ NonEmptyErrors(lastReply)
  /\ lastOutcome.t = "raise" /\ lastOutcome.e.status_code = 400
  /\ response.kind = "error" /\ response.status_code = 500

(* ------------------------------- C10 ---------------------------------- *)
\* C10: the serviceCreate input always has projectId and source.repo, and
\* has name (rootDirectory) only when service_name (root_directory) was
\* supplied, with the supplied value and never null.
C10_SparseInput ==
  (op = "create_service") =>
    LET input == calls[1].variables.input IN
    /\ calls[1].op = "serviceCreate"
    /\ {"projectId", "source"} \subseteq DOMAIN input
    /\ DOMAIN input \subseteq {"projectId", "source", "name", "rootDirectory"}
    /\ input.projectId = request.project_id
    /\ input.source = [repo |-> request.repo]
    /\ "name" \in DOMAIN input =>
         (request.service_name.j = "str" /\ input.name = request.service_name)
    /\ "rootDirectory" \in DOMAIN input =>
         (request.root_directory.j = "str"
          /\ input.rootDirectory = request.root_directory)

\* a name supplied and sent, a root directory not supplied and not sent
C10_Witness ==
  /\ op = "create_service"
  /\ request.service_name.j = "str" /\ request.root_directory.j = "null"
  /\ "name" \in DOMAIN calls[1].variables.input
  /\ calls[1].variables.input.name = request.service_name
  /\ "rootDirectory" \notin DOMAIN calls[1].variables.input

====
